---- MODULE Spec2Model ----
(***************************************************************************)
(* Realim: peer-to-peer board synchronisation.                             *)
(*                                                                         *)
(* Every peer owns a replica of the zustand store (store.ts) and runs the  *)
(* useP2P hook (p2p.ts) over a mesh room.  Board.tsx issues the local edit *)
(* intents.  The model has one state per peer and a bag of messages in     *)
(* flight; a JavaScript object is a function whose DOMAIN is the set of    *)
(* its own keys, so that an object spread is a function override.          *)
(*                                                                         *)
(* Abstractions: an element carries id, x, createdBy, createdAt and        *)
(* lastModifiedAt (y, type, content and the kind-specific payload are      *)
(* copied by the code exactly as x is); Date.now() is one logical clock;   *)
(* the empty string stands for an absent password or storage key, which    *)
(* is what the code's truthiness tests make of it.                         *)
(***************************************************************************)
EXTENDS Integers, FiniteSets, Sequences, Bags, TLC

VARIABLES
    joined,        \* joined[p]: p's useP2P effect has run (room session active)
    conn,          \* conn[p]: peers for which p's onPeerJoin has fired
    peers,         \* store.peers of p, as a bag (peer id -> occurrences)
    cursors,       \* store.cursors of p: userId -> cursor object
    elements,      \* store.elements of p: element id -> element object
    isHost,        \* store.isHost of p
    hostPassword,  \* localStorage room_pass_<room> of p ("" when absent)
    hostMarker,    \* localStorage realim_is_host_<room> of p is 'true'
    joinPass,      \* sessionStorage join_pass_<room> of p ("" when absent)
    accessDenied,  \* useP2P's accessDenied state of p (the locked screen)
    net,           \* bag of messages in flight
    clock,         \* Date.now()
    usedIds,       \* element ids nanoid() has handed out
    sentPass,      \* history: passwords p has put into a SYNC_REQ
    viaSync,       \* history: element ids p took out of a SYNC_RESP
    retries,       \* retryJoin calls made so far
    dragOpen,      \* peers whose drag gesture has sent moves but no release
    editedApart,   \* history: a local intent was issued by a peer not yet
                   \* connected, each way, with every other joined peer
    bench,         \* replicas fed with snapshots (the merge function on its own)
    disk,          \* disk[p]: p's cold-start cache and Board's load and save effects
    roomId         \* roomId[p]: the room p's Board shows (store.roomId)

vars == <<joined, conn, peers, cursors, elements, isHost, hostPassword,
          hostMarker, joinPass, accessDenied, net, clock, usedIds, sentPass,
          viaSync, retries, dragOpen, editedApart,
          bench, disk, roomId>>

-----------------------------------------------------------------------------
(* Bounds and finite domains *)

\* Largest value Date.now() takes; every local intent happens at a later
\* instant, so this bounds the number of local intents.
MaxClock == 4

\* Deliveries a bench replica takes.
MaxApply == 2

\* Times one peer id stands in a peer list (addPeer appends, and the list
\* outlives a session).
MaxDup == 2

\* onPeerJoin and onPeerLeave events one peer list takes.
MaxEvents == 4

\* retryJoin calls in one run.
MaxRetry == 1

Peers == {"A", "B", "C"}

\* The two peers of the runs with local edits.
Pair == {"A", "B"}

IdSeq == <<"e1", "e2">>

ElemIds == {IdSeq[i] : i \in DOMAIN IdSeq}

XVals == {0, 1}

Secret == "secret"

Wrong == "wrong"

NoPass == ""

\* store.userId differs from the transport's peer id (selfId).
UserId(p) == "u" \o p

-----------------------------------------------------------------------------
(* JavaScript objects *)

\* { ...a, ...b }
Spread(a, b) ==
    [k \in (DOMAIN a) \cup (DOMAIN b) |-> IF k \in DOMAIN b THEN b[k] ELSE a[k]]

\* const { [k]: _, ...rest } = a
Without(a, k) == [j \in (DOMAIN a) \ {k} |-> a[j]]

EmptyObj == [k \in {} |-> 0]

\* { [k]: v }
Single(k, v) == [j \in {k} |-> v]

-----------------------------------------------------------------------------
(* store.ts *)

\* (variant) adding an id already held removes it
addElementToggling(els, element) ==
    IF element.id \in DOMAIN els
    THEN Without(els, element.id)
    ELSE Spread(els, Single(element.id, element))

addElement(els, element) == Spread(els, Single(element.id, element))

updateElement(els, id, updates) ==
    IF id \notin DOMAIN els
    THEN els
    ELSE Spread(els, Single(id, Spread(els[id], updates)))

\* (variant) a delete empties the map
deleteElementClearing(els, id) == EmptyObj

deleteElement(els, id) == Without(els, id)

\* (variant) the local element wins every conflict
mergeKeepingLocal(els, newElements) == Spread(newElements, els)

\* (variant) an id held on both sides is dropped
mergeDroppingConflicts(els, newElements) ==
    [id \in ((DOMAIN els) \cup (DOMAIN newElements))
                \ ((DOMAIN els) \cap (DOMAIN newElements)) |->
        IF id \in DOMAIN els THEN els[id] ELSE newElements[id]]

\* (variant) only the ids already held are taken from a snapshot
mergeHeldOnly(els, newElements) ==
    [id \in DOMAIN els |->
        IF id \in DOMAIN newElements THEN newElements[id] ELSE els[id]]

\* (variant) the snapshot replaces the map
mergeReplacing(els, newElements) == newElements

mergeElements(els, newElements) == Spread(els, newElements)

\* (variant) the fields already stored win over the received ones
updateCursorKeepingOld(cs, userId, cursor) ==
    Spread(cs, Single(userId,
        Spread(cursor, IF userId \in DOMAIN cs THEN cs[userId] ELSE EmptyObj)))

updateCursor(cs, userId, cursor) ==
    Spread(cs, Single(userId,
        Spread(IF userId \in DOMAIN cs THEN cs[userId] ELSE EmptyObj, cursor)))

removeCursor(cs, userId) == Without(cs, userId)

addPeer(ps, peerId) == ps (+) SetToBag({peerId})

\* (variant) one occurrence of the peer id is removed
removePeerOnce(ps, peerId) == ps (-) SetToBag({peerId})

\* (variant) the filter keeps every entry
removePeerKeeping(ps, peerId) == ps

\* peers.filter(p => p !== peerId)
removePeer(ps, peerId) == Without(ps, peerId)

-----------------------------------------------------------------------------
(* p2p.ts: the message channel *)

\* (variant) the target is ignored: every connected peer gets a copy
sendActionIgnoringTarget(p, type, payload, targets) ==
    SetToBag({[type |-> type, from |-> p, to |-> q, payload |-> payload] :
              q \in targets \cup conn[p]})

\* sendAction(action, target): one copy in flight for every target
sendAction(p, type, payload, targets) ==
    SetToBag({[type |-> type, from |-> p, to |-> q, payload |-> payload] :
              q \in targets})

\* a message of the bag addressed to p
Inbox(p) == {m \in BagToSet(net) : m.to = p}

Taken(m) == net (-) SetToBag({m})

\* the cursor a peer announces to a newly joined peer
InitialCursor(p) ==
    [x |-> 0, y |-> 0, userId |-> UserId(p), username |-> "n" \o p,
     color |-> "#8b5cf6"]

\* (variant) an empty map is never pushed
PushOnJoinNonEmptyOnly(els, hostPw, host) == DOMAIN els # {}

\* (variant) only the host pushes a snapshot
PushOnJoinHostOnly(els, hostPw, host) == host

\* onPeerJoin: is a snapshot pushed to the new peer?
PushOnJoin(els, hostPw, host) ==
    IF DOMAIN els # {}
    THEN IF hostPw # NoPass THEN host ELSE TRUE
    ELSE host

\* (variant) a protected room refuses every request
GateAnswerRefusing(els, hostPw, host, password) ==
    IF hostPw # NoPass
    THEN "ACCESS_DENIED"
    ELSE IF DOMAIN els # {} \/ host THEN "SYNC_RESP" ELSE "NONE"

\* (variant) without a password every request is answered
GateAnswerAlways(els, hostPw, host, password) ==
    IF hostPw # NoPass
    THEN IF password = hostPw THEN "SYNC_RESP" ELSE "ACCESS_DENIED"
    ELSE "SYNC_RESP"

\* (variant) without a password only the host answers
GateAnswerHostOnly(els, hostPw, host, password) ==
    IF hostPw # NoPass
    THEN IF password = hostPw THEN "SYNC_RESP" ELSE "ACCESS_DENIED"
    ELSE IF host THEN "SYNC_RESP" ELSE "NONE"

\* getAction SYNC_REQ: the answer of the gate
GateAnswer(els, hostPw, host, password) ==
    IF hostPw # NoPass
    THEN IF password = hostPw THEN "SYNC_RESP" ELSE "ACCESS_DENIED"
    ELSE IF DOMAIN els # {} \/ host THEN "SYNC_RESP" ELSE "NONE"

\* (variant) the room is claimed with every snapshot sent in answer
GateClaimsWhenAnswering(els, hostPw, host, password) ==
    IF hostPw # NoPass
    THEN password = hostPw
    ELSE DOMAIN els # {} \/ host

\* (variant) the room is never claimed
GateClaimsNever(els, hostPw, host, password) == FALSE

\* (variant) the room is claimed whatever the password
GateClaimsAlways(els, hostPw, host, password) ==
    IF hostPw # NoPass THEN TRUE ELSE DOMAIN els = {} /\ host

\* getAction SYNC_REQ: does the handler claim the room (setIsHost(true) and
\* the host marker)?
GateClaims(els, hostPw, host, password) ==
    IF hostPw # NoPass
    THEN password = hostPw
    ELSE DOMAIN els = {} /\ host

DeniedPayload == [reason |-> "Incorrect Password"]

-----------------------------------------------------------------------------
(* Session start and peer events *)

\* (variant) only the host marker makes a creator
isCreatorByMarker(hostPw, marker) == marker

\* const isCreator = !!hostPassword || isHostMarker === 'true'
isCreator(hostPw, marker) == hostPw # NoPass \/ marker

\* The useP2P effect together with Board's load effect: the creator flags
\* are read from storage, the handlers are registered, the first SYNC_REQ is
\* sent.  T is the set of room members the transport hands that first
\* broadcast to; the transport is not part of the sources.
StartSession(p, T) ==
    /\ ~joined[p]
    /\ T \subseteq {q \in Peers \ {p} : joined[q]}
    /\ joined' = [joined EXCEPT ![p] = TRUE]
    /\ isHost' = [isHost EXCEPT ![p] = isCreator(hostPassword[p], hostMarker[p])]
    /\ net' = net (+) sendAction(p, "SYNC_REQ", [password |-> joinPass[p]], T)
    /\ sentPass' = [sentPass EXCEPT ![p] = @ \cup {joinPass[p]}]
    /\ UNCHANGED <<conn, peers, cursors, elements, hostPassword, hostMarker,
                   joinPass, accessDenied, clock, usedIds, viaSync, retries, bench,
                   dragOpen, editedApart, disk, roomId>>

\* room.onPeerJoin(q) at p
OnPeerJoin(p, q) ==
    /\ joined[p] /\ joined[q] /\ q # p /\ q \notin conn[p]
    /\ conn' = [conn EXCEPT ![p] = @ \cup {q}]
    /\ peers' = [peers EXCEPT ![p] = addPeer(@, q)]
    /\ net' = net (+) sendAction(p, "CURSOR_MOVE", InitialCursor(p), {q})
                  (+) (IF PushOnJoin(elements[p], hostPassword[p], isHost[p])
                       THEN sendAction(p, "SYNC_RESP",
                                       [elements |-> elements[p]], {q})
                       ELSE EmptyBag)
    /\ UNCHANGED <<joined, cursors, elements, isHost, hostPassword, hostMarker,
                   joinPass, accessDenied, clock, usedIds, sentPass, viaSync,
                   retries, bench,
                   dragOpen, editedApart, disk, roomId>>

-----------------------------------------------------------------------------
(* getAction: one action per message type *)

\* (variant) the handlers outlive the session
ReceivesAfterLeave(p, m, type) == m \in Inbox(p) /\ m.type = type

Receives(p, m, type) == joined[p] /\ m \in Inbox(p) /\ m.type = type

HandleSyncReq(p, m) ==
    /\ Receives(p, m, "SYNC_REQ")
    /\ LET answer == GateAnswer(elements[p], hostPassword[p], isHost[p],
                                m.payload.password)
           claims == GateClaims(elements[p], hostPassword[p], isHost[p],
                                m.payload.password)
       IN /\ net' = Taken(m) (+)
                (CASE answer = "SYNC_RESP" ->
                        sendAction(p, "SYNC_RESP", [elements |-> elements[p]],
                                   {m.from})
                   [] answer = "ACCESS_DENIED" ->
                        sendAction(p, "ACCESS_DENIED", DeniedPayload, {m.from})
                   [] OTHER -> EmptyBag)
          /\ isHost' = [isHost EXCEPT ![p] = IF claims THEN TRUE ELSE @]
          /\ hostMarker' = [hostMarker EXCEPT ![p] = IF claims THEN TRUE ELSE @]
    /\ UNCHANGED <<joined, conn, peers, cursors, elements, hostPassword,
                   joinPass, accessDenied, clock, usedIds, sentPass, viaSync,
                   retries, bench,
                   dragOpen, editedApart, disk, roomId>>

\* (variant) a peer that takes a snapshot stops being the host
HandleSyncRespDemoting(p, m) ==
    /\ Receives(p, m, "SYNC_RESP")
    /\ net' = Taken(m)
    /\ elements' = [elements EXCEPT ![p] = mergeElements(@, m.payload.elements)]
    /\ accessDenied' = [accessDenied EXCEPT ![p] = FALSE]
    /\ viaSync' = [viaSync EXCEPT ![p] = @ \cup DOMAIN m.payload.elements]
    /\ isHost' = [isHost EXCEPT ![p] = FALSE]
    /\ UNCHANGED <<joined, conn, peers, cursors, hostPassword,
                   hostMarker, joinPass, clock, usedIds, sentPass, retries, bench,
                   dragOpen, editedApart, disk, roomId>>

HandleSyncResp(p, m) ==
    /\ Receives(p, m, "SYNC_RESP")
    /\ net' = Taken(m)
    /\ elements' = [elements EXCEPT ![p] = mergeElements(@, m.payload.elements)]
    /\ accessDenied' = [accessDenied EXCEPT ![p] = FALSE]
    /\ viaSync' = [viaSync EXCEPT ![p] = @ \cup DOMAIN m.payload.elements]
    /\ UNCHANGED <<joined, conn, peers, cursors, isHost, hostPassword,
                   hostMarker, joinPass, clock, usedIds, sentPass, retries, bench,
                   dragOpen, editedApart, disk, roomId>>

HandleAccessDenied(p, m) ==
    /\ Receives(p, m, "ACCESS_DENIED")
    /\ net' = Taken(m)
    /\ accessDenied' = [accessDenied EXCEPT ![p] = TRUE]
    /\ UNCHANGED <<joined, conn, peers, cursors, elements, isHost,
                   hostPassword, hostMarker, joinPass, clock, usedIds,
                   sentPass, viaSync, retries, bench,
                   dragOpen, editedApart, disk, roomId>>

HandleAddElement(p, m) ==
    /\ Receives(p, m, "ADD_ELEMENT")
    /\ net' = Taken(m)
    /\ elements' = [elements EXCEPT ![p] = addElement(@, m.payload)]
    /\ UNCHANGED <<joined, conn, peers, cursors, isHost, hostPassword,
                   hostMarker, joinPass, accessDenied, clock, usedIds,
                   sentPass, viaSync, retries, bench,
                   dragOpen, editedApart, disk, roomId>>

HandleUpdateElement(p, m) ==
    /\ Receives(p, m, "UPDATE_ELEMENT")
    /\ net' = Taken(m)
    /\ elements' = [elements EXCEPT
                      ![p] = updateElement(@, m.payload.id, m.payload.updates)]
    /\ UNCHANGED <<joined, conn, peers, cursors, isHost, hostPassword,
                   hostMarker, joinPass, accessDenied, clock, usedIds,
                   sentPass, viaSync, retries, bench,
                   dragOpen, editedApart, disk, roomId>>

HandleDeleteElement(p, m) ==
    /\ Receives(p, m, "DELETE_ELEMENT")
    /\ net' = Taken(m)
    /\ elements' = [elements EXCEPT ![p] = deleteElement(@, m.payload.id)]
    /\ UNCHANGED <<joined, conn, peers, cursors, isHost, hostPassword,
                   hostMarker, joinPass, accessDenied, clock, usedIds,
                   sentPass, viaSync, retries, bench,
                   dragOpen, editedApart, disk, roomId>>

\* (variant) the cursor is also filed among the elements
HandleCursorMoveIntoElements(p, m) ==
    /\ Receives(p, m, "CURSOR_MOVE")
    /\ net' = Taken(m)
    /\ cursors' = [cursors EXCEPT
                     ![p] = updateCursor(@, m.payload.userId, m.payload)]
    /\ elements' = [elements EXCEPT
                      ![p] = Spread(@, Single(m.payload.userId, m.payload))]
    /\ UNCHANGED <<joined, conn, peers, isHost, hostPassword,
                   hostMarker, joinPass, accessDenied, clock, usedIds,
                   sentPass, viaSync, retries, bench,
                   dragOpen, editedApart, disk, roomId>>

HandleCursorMove(p, m) ==
    /\ Receives(p, m, "CURSOR_MOVE")
    /\ net' = Taken(m)
    /\ cursors' = [cursors EXCEPT
                     ![p] = updateCursor(@, m.payload.userId, m.payload)]
    /\ UNCHANGED <<joined, conn, peers, elements, isHost, hostPassword,
                   hostMarker, joinPass, accessDenied, clock, usedIds,
                   sentPass, viaSync, retries, bench,
                   dragOpen, editedApart, disk, roomId>>

-----------------------------------------------------------------------------
(* Local intents: Board.tsx calling the store and broadcast *)

\* Board renders the locked screen instead of the canvas while accessDenied.
CanEdit(p) == joined[p] /\ ~accessDenied[p]

\* (variant) a broadcast reaches nobody
broadcastToNobody(p, type, payload) == EmptyBag

\* broadcast(action): sendAction without a target reaches the connected peers
broadcast(p, type, payload) == sendAction(p, type, payload, conn[p])

\* is p connected, each way, with every other peer in the room?
Meshed(p) ==
    \A q \in Peers \ {p} : joined[q] => (q \in conn[p] /\ p \in conn[q])

\* handleModalSubmit
NewElement(p, id, x) ==
    [id |-> id, x |-> x, createdBy |-> UserId(p), createdAt |-> clock]

\* nanoid(): an id nobody holds; the ids are interchangeable, so the first
\* free one stands for any of them.
nanoid ==
    LET free == {i \in DOMAIN IdSeq : IdSeq[i] \notin usedIds}
    IN  IdSeq[CHOOSE i \in free : \A j \in free : i <= j]

handleModalSubmit(p, x) ==
    /\ CanEdit(p)
    /\ usedIds # ElemIds
    /\ LET id == nanoid IN
       /\ usedIds' = usedIds \cup {id}
       /\ elements' = [elements EXCEPT ![p] = addElement(@, NewElement(p, id, x))]
       /\ net' = net (+) broadcast(p, "ADD_ELEMENT", NewElement(p, id, x))
    /\ clock < MaxClock
    /\ clock' = clock + 1
    /\ editedApart' = (editedApart \/ ~Meshed(p))
    /\ UNCHANGED <<joined, conn, peers, cursors, isHost, hostPassword,
                   hostMarker, joinPass, accessDenied, sentPass, viaSync,
                   retries, dragOpen, bench, disk, roomId>>

\* handleDragUpdate
DragUpdates(x) == [x |-> x, lastModifiedAt |-> clock]

\* (variant) every drag update is applied locally
handleDragUpdateEager(p, id, x, final) ==
    /\ CanEdit(p)
    /\ id \in DOMAIN elements[p]
    /\ clock < MaxClock
    /\ clock' = clock + 1
    /\ elements' = [elements EXCEPT
                      ![p] = updateElement(@, id, DragUpdates(x))]
    /\ net' = net (+) broadcast(p, "UPDATE_ELEMENT",
                                [id |-> id, updates |-> DragUpdates(x)])
    /\ dragOpen' = IF final THEN dragOpen \ {p} ELSE dragOpen \cup {p}
    /\ editedApart' = (editedApart \/ ~Meshed(p))
    /\ UNCHANGED <<joined, conn, peers, cursors, isHost, hostPassword,
                   hostMarker, joinPass, accessDenied, usedIds, sentPass,
                   viaSync, retries, bench, disk, roomId>>

handleDragUpdate(p, id, x, final) ==
    /\ CanEdit(p)
    /\ id \in DOMAIN elements[p]
    /\ clock < MaxClock
    /\ clock' = clock + 1
    /\ elements' = [elements EXCEPT
                      ![p] = IF final THEN updateElement(@, id, DragUpdates(x))
                             ELSE @]
    /\ net' = net (+) broadcast(p, "UPDATE_ELEMENT",
                                [id |-> id, updates |-> DragUpdates(x)])
    /\ dragOpen' = IF final THEN dragOpen \ {p} ELSE dragOpen \cup {p}
    /\ editedApart' = (editedApart \/ ~Meshed(p))
    /\ UNCHANGED <<joined, conn, peers, cursors, isHost, hostPassword,
                   hostMarker, joinPass, accessDenied, usedIds, sentPass,
                   viaSync, retries, bench, disk, roomId>>

\* handleDeleteElement
handleDeleteElement(p, id) ==
    /\ CanEdit(p)
    /\ id \in DOMAIN elements[p]
    /\ clock < MaxClock
    /\ clock' = clock + 1
    /\ elements' = [elements EXCEPT ![p] = deleteElement(@, id)]
    /\ net' = net (+) broadcast(p, "DELETE_ELEMENT", [id |-> id])
    /\ editedApart' = (editedApart \/ ~Meshed(p))
    /\ UNCHANGED <<joined, conn, peers, cursors, isHost, hostPassword,
                   hostMarker, joinPass, accessDenied, usedIds,
                   sentPass, viaSync, retries, dragOpen, bench, disk, roomId>>

\* (variant) the request is sent twice
retryJoinResending(p, password) ==
    /\ joined[p] /\ accessDenied[p]
    /\ retries < MaxRetry
    /\ retries' = retries + 1
    /\ accessDenied' = [accessDenied EXCEPT ![p] = FALSE]
    /\ net' = net (+) broadcast(p, "SYNC_REQ", [password |-> password])
                  (+) broadcast(p, "SYNC_REQ", [password |-> password])
    /\ sentPass' = [sentPass EXCEPT ![p] = @ \cup {password}]
    /\ UNCHANGED <<joined, conn, peers, cursors, elements, isHost,
                   hostPassword, hostMarker, joinPass, clock, usedIds,
                   viaSync, bench,
                   dragOpen, editedApart, disk, roomId>>

\* retryJoin(password), called from the locked screen
retryJoin(p, password) ==
    /\ joined[p] /\ accessDenied[p]
    /\ retries < MaxRetry
    /\ retries' = retries + 1
    /\ accessDenied' = [accessDenied EXCEPT ![p] = FALSE]
    /\ net' = net (+) broadcast(p, "SYNC_REQ", [password |-> password])
    /\ sentPass' = [sentPass EXCEPT ![p] = @ \cup {password}]
    /\ UNCHANGED <<joined, conn, peers, cursors, elements, isHost,
                   hostPassword, hostMarker, joinPass, clock, usedIds,
                   viaSync, bench,
                   dragOpen, editedApart, disk, roomId>>

\* handleMouseMove: the pointer position is broadcast
MouseCursor(p, x) ==
    [x |-> x, y |-> 0, userId |-> UserId(p), username |-> "n" \o p,
     color |-> "#8b5cf6"]

handleMouseMove(p, x) ==
    /\ CanEdit(p)
    /\ clock < MaxClock
    /\ clock' = clock + 1
    /\ net' = net (+) broadcast(p, "CURSOR_MOVE", MouseCursor(p, x))
    /\ UNCHANGED <<joined, conn, peers, cursors, elements, isHost,
                   hostPassword, hostMarker, joinPass, accessDenied, usedIds,
                   sentPass, viaSync, retries, dragOpen, editedApart, bench, disk, roomId>>

\* The cleanup of the useP2P effect: room.leave().  The store is kept.
LeaveRoom(q) ==
    /\ joined[q]
    /\ joined' = [joined EXCEPT ![q] = FALSE]
    /\ conn' = [conn EXCEPT ![q] = {}]
    /\ UNCHANGED <<peers, cursors, elements, isHost, hostPassword, hostMarker,
                   joinPass, accessDenied, net, clock, usedIds, sentPass,
                   viaSync, retries, dragOpen, editedApart, bench, disk, roomId>>

\* room.onPeerLeave(q) at p
OnPeerLeave(p, q) ==
    /\ joined[p] /\ q \in conn[p] /\ ~joined[q]
    /\ conn' = [conn EXCEPT ![p] = @ \ {q}]
    /\ peers' = [peers EXCEPT ![p] = removePeer(@, q)]
    /\ cursors' = [cursors EXCEPT ![p] = removeCursor(@, q)]
    /\ UNCHANGED <<joined, elements, isHost, hostPassword, hostMarker,
                   joinPass, accessDenied, net, clock, usedIds, sentPass,
                   viaSync, retries, dragOpen, editedApart, bench, disk, roomId>>

-----------------------------------------------------------------------------
(* The room protocol *)

\* Everybody is in the same room.
OneRoom == [p \in Peers |-> "r"]

\* The cache read of the visit has completed and the cache is not looked at
\* again: the board it held is in the store.
DiskSettled ==
    [p \in Peers |-> [cache |-> EmptyObj, val |-> EmptyObj, load |-> "done",
                      seen |-> EmptyObj, examined |-> EmptyObj]]

BenchIdle == [trail |-> <<>>, applied |-> <<>>]

\* An element the creator made in an earlier visit; Board's load effect put
\* it back into the empty store from the cold-start cache.
CachedElement == [id |-> "e1", x |-> 0, createdBy |-> UserId("A"), createdAt |-> 1]

CachedBoards == {EmptyObj, Single("e1", CachedElement)}

StoreInit(board, now) ==
    /\ joined = [p \in Peers |-> FALSE]
    /\ conn = [p \in Peers |-> {}]
    /\ peers = [p \in Peers |-> EmptyBag]
    /\ cursors = [p \in Peers |-> EmptyObj]
    /\ elements = [p \in Peers |-> IF p = "A" THEN board ELSE EmptyObj]
    /\ isHost = [p \in Peers |-> FALSE]
    /\ accessDenied = [p \in Peers |-> FALSE]
    /\ net = EmptyBag
    /\ clock = now
    /\ usedIds = DOMAIN board
    /\ sentPass = [p \in Peers |-> {}]
    /\ viaSync = [p \in Peers |-> {}]
    /\ retries = 0
    /\ dragOpen = {}
    /\ editedApart = FALSE

\* Room protected by the password of its creator A; B is a guest without a
\* stored join password.
Init ==
    /\ \E board \in CachedBoards : StoreInit(board, MaxClock - 1)
    /\ hostPassword = [p \in Peers |-> IF p = "A" THEN Secret ELSE NoPass]
    /\ hostMarker = [p \in Peers |-> FALSE]
    /\ joinPass = [p \in Peers |-> NoPass]
    /\ roomId = OneRoom
    /\ bench = BenchIdle
    /\ disk = DiskSettled

Next ==
    \/ \E p \in Pair : \E T \in SUBSET Pair : StartSession(p, T)
    \/ \E p \in Pair, q \in Pair : OnPeerJoin(p, q)
    \/ \E p \in Pair : \E m \in Inbox(p) : HandleSyncReq(p, m)
    \/ \E p \in Pair : \E m \in Inbox(p) : HandleSyncResp(p, m)
    \/ \E p \in Pair : \E m \in Inbox(p) : HandleAccessDenied(p, m)
    \/ \E p \in Pair : \E m \in Inbox(p) : HandleAddElement(p, m)
    \/ \E p \in Pair : \E m \in Inbox(p) : HandleUpdateElement(p, m)
    \/ \E p \in Pair : \E m \in Inbox(p) : HandleDeleteElement(p, m)
    \/ \E p \in Pair : \E m \in Inbox(p) : HandleCursorMove(p, m)
    \/ \E p \in Pair, x \in XVals : handleModalSubmit(p, x)
    \/ \E p \in Pair, id \in ElemIds, x \in XVals, final \in BOOLEAN :
           handleDragUpdate(p, id, x, final)
    \/ \E p \in Pair, id \in ElemIds : handleDeleteElement(p, id)
    \/ \E p \in Pair, pw \in {Secret, Wrong} : retryJoin(p, pw)

Spec == Init /\ [][Next]_vars

-----------------------------------------------------------------------------
(* The same pair of peers in a room without a password *)

OpenInit ==
    /\ StoreInit(Single("e1", CachedElement), MaxClock - 2)
    /\ hostPassword = [p \in Peers |-> NoPass]
    /\ hostMarker \in {[p \in Peers |-> p = "A" /\ b] : b \in BOOLEAN}
    /\ joinPass = [p \in Peers |-> NoPass]
    /\ roomId = OneRoom
    /\ bench = BenchIdle
    /\ disk = DiskSettled

OpenNext ==
    \/ \E p \in Pair : \E T \in SUBSET Pair : StartSession(p, T)
    \/ \E p \in Pair, q \in Pair : OnPeerJoin(p, q)
    \/ \E p \in Pair : \E m \in Inbox(p) : HandleSyncReq(p, m)
    \/ \E p \in Pair : \E m \in Inbox(p) : HandleSyncResp(p, m)
    \/ \E p \in Pair : \E m \in Inbox(p) : HandleAddElement(p, m)
    \/ \E p \in Pair : \E m \in Inbox(p) : HandleUpdateElement(p, m)
    \/ \E p \in Pair : \E m \in Inbox(p) : HandleDeleteElement(p, m)
    \/ \E p \in Pair : \E m \in Inbox(p) : HandleCursorMove(p, m)
    \/ \E p \in Pair, x \in XVals : handleModalSubmit(p, x)
    \/ \E p \in Pair, id \in ElemIds, x \in XVals, final \in BOOLEAN :
           handleDragUpdate(p, id, x, final)
    \/ \E p \in Pair, id \in ElemIds : handleDeleteElement(p, id)

OpenSpec == OpenInit /\ [][OpenNext]_vars

-----------------------------------------------------------------------------
(* Three peers in the protected room, nobody editing: the creator A holds   *)
(* the cached board, B has the password of an earlier unlock in its         *)
(* sessionStorage or not, C has none.  The mesh is partial: A and C never reach    *)
(* each other, B reaches both.                                              *)

Links == {<<"A", "B">>, <<"B", "A">>, <<"B", "C">>, <<"C", "B">>}

Reach(p) == {q \in Peers : <<p, q>> \in Links}

SeedInit ==
    /\ StoreInit(Single("e1", CachedElement), MaxClock)
    /\ hostPassword = [p \in Peers |-> IF p = "A" THEN Secret ELSE NoPass]
    /\ hostMarker = [p \in Peers |-> FALSE]
    /\ joinPass \in {[p \in Peers |-> IF p = "B" THEN pw ELSE NoPass] :
                     pw \in {NoPass, Secret}}
    /\ roomId = OneRoom
    /\ bench = BenchIdle
    /\ disk = DiskSettled

SeedNext ==
    \/ \E p \in Peers : \E T \in SUBSET Reach(p) : StartSession(p, T)
    \/ \E p \in Peers : \E q \in Reach(p) : OnPeerJoin(p, q)
    \/ \E p \in Peers : \E m \in Inbox(p) : HandleSyncReq(p, m)
    \/ \E p \in Peers : \E m \in Inbox(p) : HandleSyncResp(p, m)
    \/ \E p \in Peers : \E m \in Inbox(p) : HandleAccessDenied(p, m)
    \/ \E p \in Peers : \E m \in Inbox(p) : HandleCursorMove(p, m)

SeedSpec == SeedInit /\ [][SeedNext]_vars

-----------------------------------------------------------------------------
(* Cursors and departures: two peers of a room without a password move     *)
(* their pointers and leave.  Every peer opens one session in a run.       *)

CursorInit ==
    /\ StoreInit(Single("e1", CachedElement), MaxClock - 2)
    /\ hostPassword = [p \in Peers |-> NoPass]
    /\ hostMarker = [p \in Peers |-> FALSE]
    /\ joinPass = [p \in Peers |-> NoPass]
    /\ roomId = OneRoom
    /\ bench = BenchIdle
    /\ disk = DiskSettled

CursorNext ==
    \/ \E p \in Pair : \E T \in SUBSET Pair :
           sentPass[p] = {} /\ StartSession(p, T)
    \/ \E p \in Pair, q \in Pair : OnPeerJoin(p, q)
    \/ \E p \in Pair : \E m \in Inbox(p) : HandleSyncReq(p, m)
    \/ \E p \in Pair : \E m \in Inbox(p) : HandleSyncResp(p, m)
    \/ \E p \in Pair : \E m \in Inbox(p) : HandleCursorMove(p, m)
    \/ \E p \in Pair, x \in XVals : handleMouseMove(p, x)
    \/ \E q \in Pair : LeaveRoom(q)
    \/ \E p \in Pair, q \in Pair : OnPeerLeave(p, q)

CursorSpec == CursorInit /\ [][CursorNext]_vars

-----------------------------------------------------------------------------
(* The password handshake with its progress conditions: creator A holds the *)
(* password and the cached board, guest B has no stored join password.  The *)
(* transport connects the peers of a room and delivers what was sent to a   *)
(* connected peer, hence the weak fairness of the sessions, of onPeerJoin   *)
(* and of every getAction step; retryJoin is the user's choice.             *)

HandshakeInit ==
    /\ StoreInit(Single("e1", CachedElement), MaxClock)
    /\ hostPassword = [p \in Peers |-> IF p = "A" THEN Secret ELSE NoPass]
    /\ hostMarker = [p \in Peers |-> FALSE]
    /\ joinPass = [p \in Peers |-> NoPass]
    /\ roomId = OneRoom
    /\ bench = BenchIdle
    /\ disk = DiskSettled

Sessions == \E p \in Pair : \E T \in SUBSET Pair : StartSession(p, T)

Joins == \E p \in Pair, q \in Pair : OnPeerJoin(p, q)

SyncReqs == \E p \in Pair : \E m \in Inbox(p) : HandleSyncReq(p, m)

SyncResps == \E p \in Pair : \E m \in Inbox(p) : HandleSyncResp(p, m)

Denials == \E p \in Pair : \E m \in Inbox(p) : HandleAccessDenied(p, m)

Adds == \E p \in Pair : \E m \in Inbox(p) : HandleAddElement(p, m)

CursorMoves == \E p \in Pair : \E m \in Inbox(p) : HandleCursorMove(p, m)

HandshakeNext ==
    \/ Sessions
    \/ Joins
    \/ SyncReqs
    \/ SyncResps
    \/ Denials
    \/ CursorMoves
    \/ \E pw \in {Secret, Wrong} : retryJoin("B", pw)

HandshakeFair ==
    /\ WF_vars(Sessions) /\ WF_vars(Joins)
    /\ WF_vars(SyncReqs) /\ WF_vars(SyncResps)
    /\ WF_vars(Denials) /\ WF_vars(CursorMoves)

HandshakeSpec == HandshakeInit /\ [][HandshakeNext]_vars /\ HandshakeFair

-----------------------------------------------------------------------------
(* The requests of the handshake: the same room and steps, without the      *)
(* progress conditions; the guest has no stored join password, a wrong one  *)
(* or the right one.                                                        *)

RequestInit ==
    /\ StoreInit(Single("e1", CachedElement), MaxClock)
    /\ hostPassword = [p \in Peers |-> IF p = "A" THEN Secret ELSE NoPass]
    /\ hostMarker = [p \in Peers |-> FALSE]
    /\ joinPass \in {[p \in Peers |-> IF p = "B" THEN pw ELSE NoPass] :
                     pw \in {NoPass, Wrong, Secret}}
    /\ roomId = OneRoom
    /\ bench = BenchIdle
    /\ disk = DiskSettled

RequestSpec == RequestInit /\ [][HandshakeNext]_vars

-----------------------------------------------------------------------------
(* Bootstrap and inserts in a room without a password, with the same       *)
(* progress conditions: A holds the cached board, either peer may add one  *)
(* element, nobody deletes.                                                *)

BootInit ==
    /\ StoreInit(Single("e1", CachedElement), MaxClock - 1)
    /\ hostPassword = [p \in Peers |-> NoPass]
    /\ hostMarker \in {[p \in Peers |-> p = "A" /\ b] : b \in BOOLEAN}
    /\ joinPass = [p \in Peers |-> NoPass]
    /\ roomId = OneRoom
    /\ bench = BenchIdle
    /\ disk = DiskSettled

BootNext ==
    \/ Sessions
    \/ Joins
    \/ SyncReqs
    \/ SyncResps
    \/ Adds
    \/ CursorMoves
    \/ \E p \in Pair, x \in XVals : handleModalSubmit(p, x)

BootFair ==
    /\ WF_vars(Sessions) /\ WF_vars(Joins)
    /\ WF_vars(SyncReqs) /\ WF_vars(SyncResps)
    /\ WF_vars(Adds) /\ WF_vars(CursorMoves)

BootSpec == BootInit /\ [][BootNext]_vars /\ BootFair

-----------------------------------------------------------------------------
(* The cold-start cache: A stayed in the room without a password and moved *)
(* e1; B comes back with an empty store and the cache of its last visit,   *)
(* whose read, issued on entering the room, is still pending.  Board's     *)
(* effects close over the store of the render that created them.           *)

\* e1 as A holds it: moved after B's last visit
LiveElement == Spread(CachedElement, [x |-> 1, lastModifiedAt |-> 2])

\* get('realim_room_<roomId>').then(...): the read completes
CacheRead(p) ==
    /\ joined[p] /\ disk[p].load = "pending"
    /\ elements' = [elements EXCEPT
                      ![p] = IF DOMAIN disk[p].val # {} /\ DOMAIN disk[p].seen = {}
                             THEN Spread(@, disk[p].val)
                             ELSE @]
    /\ disk' = [disk EXCEPT ![p].load = "done"]
    /\ UNCHANGED <<joined, conn, peers, cursors, isHost, hostPassword,
                   hostMarker, joinPass, accessDenied, net, clock, usedIds,
                   sentPass, viaSync, retries, dragOpen, editedApart, bench, roomId>>

\* The save effect, re-created when store.elements changes: its timer fires
SaveEffect(p) ==
    /\ joined[p] /\ disk[p].examined # elements[p]
    /\ disk' = [disk EXCEPT
                  ![p].examined = elements[p],
                  ![p].cache = IF DOMAIN elements[p] # {} THEN elements[p] ELSE @]
    /\ UNCHANGED <<joined, conn, peers, cursors, elements, isHost,
                   hostPassword, hostMarker, joinPass, accessDenied, net,
                   clock, usedIds, sentPass, viaSync, retries, dragOpen,
                   editedApart, bench, roomId>>

CacheInit ==
    /\ StoreInit(Single("e1", LiveElement), MaxClock - 1)
    /\ hostPassword = [p \in Peers |-> NoPass]
    /\ hostMarker = [p \in Peers |-> FALSE]
    /\ joinPass = [p \in Peers |-> NoPass]
    /\ roomId = OneRoom
    /\ bench = BenchIdle
    /\ \E old \in CachedBoards :
          disk = [p \in Peers |->
                    IF p = "B"
                    THEN [cache |-> old, val |-> old, load |-> "pending",
                          seen |-> elements[p], examined |-> elements[p]]
                    ELSE [cache |-> elements[p], val |-> EmptyObj,
                          load |-> "done", seen |-> EmptyObj,
                          examined |-> elements[p]]]

Deletes == \E p \in Pair : \E m \in Inbox(p) : HandleDeleteElement(p, m)

CacheNext ==
    \/ Sessions
    \/ Joins
    \/ SyncReqs
    \/ SyncResps
    \/ Deletes
    \/ CursorMoves
    \/ \E p \in Pair, id \in ElemIds : handleDeleteElement(p, id)
    \/ \E p \in Pair : CacheRead(p)
    \/ \E p \in Pair : SaveEffect(p)

CacheSpec == CacheInit /\ [][CacheNext]_vars

-----------------------------------------------------------------------------
(* Two rooms without passwords or host markers: A, holding the board of    *)
(* room r, and B are in r, C is in room r2, whose board is empty; A's Board *)
(* then shows r2.  The transport connects the peers of one room and        *)
(* delivers to a peer what a peer of the room it is in has sent to it.     *)
(* Nobody edits.                                                           *)

Roommates(p, r) == {q \in Peers \ {p} : joined[q] /\ roomId[q] = r}

\* Board's roomId changes: the cleanup of the useP2P effect (room.leave()),
\* then Board's load effect (setRoomId, setIsHost) and the useP2P effect for
\* the new room.  Nothing resets elements, cursors or peers.
ChangeRoom(p, r, T) ==
    /\ joined[p] /\ roomId[p] # r
    /\ T \subseteq Roommates(p, r)
    /\ roomId' = [roomId EXCEPT ![p] = r]
    /\ conn' = [conn EXCEPT ![p] = {}]
    /\ isHost' = [isHost EXCEPT ![p] = isCreator(hostPassword[p], hostMarker[p])]
    /\ net' = net (+) sendAction(p, "SYNC_REQ", [password |-> joinPass[p]], T)
    /\ sentPass' = [sentPass EXCEPT ![p] = @ \cup {joinPass[p]}]
    /\ UNCHANGED <<joined, peers, cursors, elements, hostPassword, hostMarker,
                   joinPass, accessDenied, clock, usedIds, viaSync, retries,
                   bench, dragOpen, editedApart, disk>>

RoomInit ==
    /\ StoreInit(Single("e1", CachedElement), MaxClock)
    /\ hostPassword = [p \in Peers |-> NoPass]
    /\ hostMarker = [p \in Peers |-> FALSE]
    /\ joinPass = [p \in Peers |-> NoPass]
    /\ bench = BenchIdle
    /\ disk = DiskSettled
    /\ roomId = [p \in Peers |-> IF p = "C" THEN "r2" ELSE "r"]

\* a message to p sent within the room p is in
InRoom(p) == {m \in Inbox(p) : roomId[m.from] = roomId[p]}

RoomNext ==
    \/ \E p \in Peers : \E T \in SUBSET Roommates(p, roomId[p]) :
           StartSession(p, T)
    \/ \E p \in Peers : \E q \in Roommates(p, roomId[p]) : OnPeerJoin(p, q)
    \/ \E p \in Peers : \E m \in InRoom(p) : HandleSyncReq(p, m)
    \/ \E p \in Peers : \E m \in InRoom(p) : HandleSyncResp(p, m)
    \/ \E p \in Peers : \E m \in InRoom(p) : HandleCursorMove(p, m)
    \/ \E T \in SUBSET Peers : ChangeRoom("A", "r2", T)

RoomSpec == RoomInit /\ [][RoomNext]_vars

-----------------------------------------------------------------------------
(* The merge function on its own: one replica takes snapshots, in any order *)
(* and with repeats; bench.trail keeps its element map before and after     *)
(* every delivery, bench.applied the snapshots delivered.                   *)

BenchBase(id, x) == [id |-> id, x |-> x, createdBy |-> UserId("A")]

\* never stamped; created at 1; created at 1 and moved at 2
BenchElems(id) ==
    {BenchBase(id, 0)}
    \cup {Spread(BenchBase(id, x), [createdAt |-> 1]) : x \in XVals}
    \cup {Spread(BenchBase(id, x), [createdAt |-> 1, lastModifiedAt |-> 2]) :
          x \in XVals}

BenchMaps ==
    UNION {{f \in [D -> UNION {BenchElems(id) : id \in ElemIds}] :
                \A id \in D : f[id].id = id} : D \in SUBSET ElemIds}

MergeInit ==
    /\ StoreInit(EmptyObj, MaxClock)
    /\ hostPassword = [p \in Peers |-> NoPass]
    /\ hostMarker = [p \in Peers |-> FALSE]
    /\ joinPass = [p \in Peers |-> NoPass]
    /\ disk = DiskSettled
    /\ roomId = OneRoom
    /\ bench \in {[trail |-> <<M>>, applied |-> <<>>] : M \in BenchMaps}

\* getAction SYNC_RESP at the bench replica: store.mergeElements(payload.elements)
ReceiveSnapshot(S) ==
    /\ Len(bench.applied) < MaxApply
    /\ bench' = [trail |-> Append(bench.trail,
                     mergeElements(bench.trail[Len(bench.trail)], S)),
                 applied |-> Append(bench.applied, S)]
    /\ UNCHANGED <<joined, conn, peers, cursors, elements, isHost,
                   hostPassword, hostMarker, joinPass, accessDenied, net,
                   clock, usedIds, sentPass, viaSync, retries,
                   dragOpen, editedApart, disk, roomId>>

MergeNext == \E S \in BenchMaps : ReceiveSnapshot(S)

MergeSpec == MergeInit /\ [][MergeNext]_vars

-----------------------------------------------------------------------------
(* The insert on its own: one replica takes ADD_ELEMENT messages, in any    *)
(* order and with repeats; bench.applied keeps the elements delivered.      *)

AddInit == MergeInit

\* getAction ADD_ELEMENT at the bench replica: store.addElement(payload)
ReceiveAdd(e) ==
    /\ Len(bench.applied) < MaxApply
    /\ bench' = [trail |-> Append(bench.trail,
                     addElement(bench.trail[Len(bench.trail)], e)),
                 applied |-> Append(bench.applied, e)]
    /\ UNCHANGED <<joined, conn, peers, cursors, elements, isHost,
                   hostPassword, hostMarker, joinPass, accessDenied, net,
                   clock, usedIds, sentPass, viaSync, retries,
                   dragOpen, editedApart, disk, roomId>>

AddNext == \E id \in ElemIds : \E e \in BenchElems(id) : ReceiveAdd(e)

AddSpec == AddInit /\ [][AddNext]_vars

-----------------------------------------------------------------------------
(* The delete on its own: one replica takes DELETE_ELEMENT messages, for    *)
(* ids held or not and with repeats; bench.applied keeps the ids.           *)

DeleteInit == MergeInit

\* getAction DELETE_ELEMENT at the bench replica: store.deleteElement(payload.id)
ReceiveDelete(id) ==
    /\ Len(bench.applied) < MaxApply
    /\ bench' = [trail |-> Append(bench.trail,
                     deleteElement(bench.trail[Len(bench.trail)], id)),
                 applied |-> Append(bench.applied, id)]
    /\ UNCHANGED <<joined, conn, peers, cursors, elements, isHost,
                   hostPassword, hostMarker, joinPass, accessDenied, net,
                   clock, usedIds, sentPass, viaSync, retries,
                   dragOpen, editedApart, disk, roomId>>

DeleteNext == \E id \in ElemIds : ReceiveDelete(id)

DeleteSpec == DeleteInit /\ [][DeleteNext]_vars

-----------------------------------------------------------------------------
(* The departure handler on its own: one replica, with any peer list,       *)
(* cursor map and board, takes onPeerLeave events for any peer id, joined   *)
(* before or not; bench.applied keeps the peer ids.                         *)

\* room.onPeerLeave(peerId) on the store
onPeerLeave(st, peerId) ==
    [st EXCEPT !.peers = removePeer(@, peerId),
               !.cursors = removeCursor(@, peerId)]

Others == Peers \ {"A"}

PeerLists == UNION {[D -> 1 .. MaxDup] : D \in SUBSET Others}

CursorMaps ==
    UNION {{f \in [{UserId(q) : q \in D} ->
                    {MouseCursor(q, x) : q \in D, x \in XVals}] :
                \A u \in DOMAIN f : f[u].userId = u} : D \in SUBSET Others}

LeaveInit ==
    /\ StoreInit(EmptyObj, MaxClock)
    /\ hostPassword = [p \in Peers |-> NoPass]
    /\ hostMarker = [p \in Peers |-> FALSE]
    /\ joinPass = [p \in Peers |-> NoPass]
    /\ disk = DiskSettled
    /\ roomId = OneRoom
    /\ bench \in {[trail |-> <<[peers |-> ps, cursors |-> cs, elements |-> els]>>,
                    applied |-> <<>>] :
                   ps \in PeerLists, cs \in CursorMaps, els \in CachedBoards}

ReceiveLeave(q) ==
    /\ Len(bench.applied) < MaxApply
    /\ bench' = [trail |-> Append(bench.trail,
                     onPeerLeave(bench.trail[Len(bench.trail)], q)),
                 applied |-> Append(bench.applied, q)]
    /\ UNCHANGED <<joined, conn, peers, cursors, elements, isHost,
                   hostPassword, hostMarker, joinPass, accessDenied, net,
                   clock, usedIds, sentPass, viaSync, retries,
                   dragOpen, editedApart, disk, roomId>>

LeaveNext == \E q \in Others : ReceiveLeave(q)

LeaveSpec == LeaveInit /\ [][LeaveNext]_vars

-----------------------------------------------------------------------------
(* The peer list on its own: the store of a fresh session takes onPeerJoin  *)
(* and onPeerLeave events; the transport announces a peer that is connected *)
(* only after it has left.  bench.applied keeps the events.                 *)

\* room.onPeerJoin(peerId) on the store
onPeerJoin(st, peerId) == [st EXCEPT !.peers = addPeer(@, peerId)]

PeerEvents == {[kind |-> k, peerId |-> q] : k \in {"join", "leave"}, q \in Others}

\* the peers connected after the first k events: joined and not left since
Connected(k) ==
    {q \in Others :
        \E i \in 1 .. k :
            /\ bench.applied[i] = [kind |-> "join", peerId |-> q]
            /\ \A j \in (i + 1) .. k :
                  bench.applied[j] # [kind |-> "leave", peerId |-> q]}

PeerInit ==
    /\ StoreInit(EmptyObj, MaxClock)
    /\ hostPassword = [p \in Peers |-> NoPass]
    /\ hostMarker = [p \in Peers |-> FALSE]
    /\ joinPass = [p \in Peers |-> NoPass]
    /\ disk = DiskSettled
    /\ roomId = OneRoom
    /\ bench = [trail |-> <<[peers |-> EmptyBag, cursors |-> EmptyObj,
                             elements |-> EmptyObj]>>,
                applied |-> <<>>]

ReceivePeerEvent(e) ==
    /\ Len(bench.applied) < MaxEvents
    /\ e.kind = "join" => e.peerId \notin Connected(Len(bench.applied))
    /\ bench' = [trail |-> Append(bench.trail,
                     IF e.kind = "join"
                     THEN onPeerJoin(bench.trail[Len(bench.trail)], e.peerId)
                     ELSE onPeerLeave(bench.trail[Len(bench.trail)], e.peerId)),
                 applied |-> Append(bench.applied, e)]
    /\ UNCHANGED <<joined, conn, peers, cursors, elements, isHost,
                   hostPassword, hostMarker, joinPass, accessDenied, net,
                   clock, usedIds, sentPass, viaSync, retries,
                   dragOpen, editedApart, disk, roomId>>

PeerNext == \E e \in PeerEvents : ReceivePeerEvent(e)

PeerSpec == PeerInit /\ [][PeerNext]_vars

-----------------------------------------------------------------------------
(* Properties *)

\* lastModifiedAt ?? createdAt ?? 0
Recency(e) ==
    IF "lastModifiedAt" \in DOMAIN e THEN e.lastModifiedAt
    ELSE IF "createdAt" \in DOMAIN e THEN e.createdAt
    ELSE 0

\* the deliveries the bench replica has taken
Deliveries == 1 .. Len(bench.applied)

Before(k) == bench.trail[k]

After(k) == bench.trail[k + 1]

\* a message this step puts in flight / takes out of flight
Sent(m) == CopiesIn(m, net') > CopiesIn(m, net)

Consumed(m) == CopiesIn(m, net') < CopiesIn(m, net)

SyncResp(from, to, els) ==
    [type |-> "SYNC_RESP", from |-> from, to |-> to,
     payload |-> [elements |-> els]]

Denied(from, to) ==
    [type |-> "ACCESS_DENIED", from |-> from, to |-> to,
     payload |-> [reason |-> "Incorrect Password"]]

\* the password of the room: the one its creator holds
RoomPassword == hostPassword["A"]

\* C1: for every id held locally and present in a received snapshot, when
\* the local element is at least as recent as the incoming one, the local
\* element is unchanged by the merge.
C1_MergeKeepsRecentLocal ==
    \A k \in Deliveries :
        \A id \in (DOMAIN Before(k)) \cap (DOMAIN bench.applied[k]) :
            Recency(Before(k)[id]) >= Recency(bench.applied[k][id])
                => After(k)[id] = Before(k)[id]

\* C2: for every id of a received snapshot that is absent locally or strictly
\* newer than the local element, the merged map holds exactly the incoming
\* element.
C2_MergeTakesNewer ==
    \A k \in Deliveries :
        \A id \in DOMAIN bench.applied[k] :
            (\/ id \notin DOMAIN Before(k)
             \/ Recency(bench.applied[k][id]) > Recency(Before(k)[id]))
                => /\ id \in DOMAIN After(k)
                   /\ After(k)[id] = bench.applied[k][id]

\* A delivery that inserted one id and replaced another, older and
\* different, local element.
C2_Witness ==
    \E k \in Deliveries :
        /\ \E id \in DOMAIN bench.applied[k] :
              id \notin DOMAIN Before(k) /\ id \in DOMAIN After(k)
        /\ \E id \in (DOMAIN bench.applied[k]) \cap (DOMAIN Before(k)) :
              /\ Recency(bench.applied[k][id]) > Recency(Before(k)[id])
              /\ After(k)[id] # Before(k)[id]

\* C3: a peer that holds a room password sends a SYNC_RESP to X only in the
\* step that consumes a SYNC_REQ from X carrying that password.
C3_ProtectedDisclosure ==
    [][\A m \in BagToSet(net') :
          (Sent(m) /\ m.type = "SYNC_RESP" /\ hostPassword[m.from] # NoPass)
             => \E r \in BagToSet(net) :
                   /\ Consumed(r)
                   /\ r.type = "SYNC_REQ"
                   /\ r.from = m.to /\ r.to = m.from
                   /\ r.payload.password = hostPassword[m.from]]_vars

\* C4: a peer without the room password that never put the password into a
\* SYNC_REQ holds no element made by the creator.
C4_NoUnauthorizedAccess ==
    \A p \in Peers :
        (hostPassword[p] = NoPass /\ RoomPassword \notin sentPass[p])
            => \A id \in DOMAIN elements[p] :
                   elements[p][id].createdBy # UserId("A")

\* C5: the step in which a peer holding password P consumes SYNC_REQ{P} from
\* X puts exactly one message in flight: a SYNC_RESP to X with the peer's
\* whole element map.
C5_GateAccept ==
    [][\A p \in Peers : \A r \in Inbox(p) :
          (/\ Consumed(r)
           /\ r.type = "SYNC_REQ"
           /\ hostPassword[p] # NoPass
           /\ r.payload.password = hostPassword[p])
             => net' = Taken(r) (+) SetToBag({SyncResp(p, r.from, elements[p])})
      ]_vars

\* The creator has accepted a request (only that sets its host marker) and
\* its snapshot, which is not empty, is on its way to the guest.
C5_Witness ==
    /\ hostMarker["A"]
    /\ RoomPassword \in sentPass["B"]
    /\ \E m \in Inbox("B") :
          /\ m.type = "SYNC_RESP" /\ m.from = "A"
          /\ DOMAIN m.payload.elements # {}

\* C6: the step in which a peer holding password P consumes a SYNC_REQ from X
\* with no password or another one puts exactly one message in flight, an
\* ACCESS_DENIED{"Incorrect Password"} to X, and leaves the peer's element
\* map, isHost flag and host marker as they were.
C6_GateDeny ==
    [][\A p \in Peers : \A r \in Inbox(p) :
          (/\ Consumed(r)
           /\ r.type = "SYNC_REQ"
           /\ hostPassword[p] # NoPass
           /\ r.payload.password # hostPassword[p])
             => /\ net' = Taken(r) (+) SetToBag({Denied(p, r.from)})
                /\ elements'[p] = elements[p]
                /\ isHost'[p] = isHost[p]
                /\ hostMarker'[p] = hostMarker[p]
      ]_vars

\* The guest was denied twice: once without a password, once with a wrong
\* one; the second denial is in flight.
C6_Witness ==
    /\ sentPass["B"] = {NoPass, Wrong}
    /\ retries = 1
    /\ Denied("A", "B") \in BagToSet(net)

\* C7: a guest sends elements it took out of a SYNC_RESP on to X only in the
\* step that consumes a SYNC_REQ from X carrying the room password.
C7_ReseedUnderPassword ==
    [][\A m \in BagToSet(net') :
          (/\ Sent(m)
           /\ m.type = "SYNC_RESP"
           /\ hostPassword[m.from] = NoPass
           /\ (DOMAIN m.payload.elements) \cap viaSync[m.from] # {})
             => \E r \in BagToSet(net) :
                   /\ Consumed(r)
                   /\ r.type = "SYNC_REQ"
                   /\ r.from = m.to /\ r.to = m.from
                   /\ r.payload.password = RoomPassword]_vars

\* C8: when both peers are in the room and connected to each other, every
\* local edit was issued by a connected peer, every drag has been released
\* and no message is in flight,
\* their element maps are equal.
C8_Convergence ==
    (/\ \A p \in Pair : joined[p] /\ conn[p] = Pair \ {p}
     /\ ~editedApart /\ dragOpen = {}
     /\ net = EmptyBag)
        => elements["A"] = elements["B"]

\* C9: delivering the same snapshot twice in a row leaves the map of the
\* first delivery.
C9_MergeIdempotent ==
    \A k \in Deliveries :
        (k + 1 \in Deliveries /\ bench.applied[k + 1] = bench.applied[k])
            => After(k + 1) = After(k)

\* The same snapshot was delivered twice and its first delivery changed the
\* map, replacing a local element.
C9_Witness ==
    /\ Len(bench.applied) = 2
    /\ bench.applied[1] = bench.applied[2]
    /\ \E id \in (DOMAIN Before(1)) \cap (DOMAIN bench.applied[1]) :
          After(1)[id] # Before(1)[id]

\* C10: after two snapshots the map is the one their deliveries in the other
\* order produce.
C10_MergeCommutes ==
    Len(bench.applied) = 2
        => After(2) = mergeElements(mergeElements(Before(1), bench.applied[2]),
                                    bench.applied[1])

\* C11: the step in which onPeerLeave fires at p for q leaves no cursor of q
\* (stored under q's user id) in p's cursor map.
C11_LeaveRemovesCursor ==
    [][\A p \in Peers : \A q \in conn[p] :
          q \notin conn'[p] => UserId(q) \notin DOMAIN cursors'[p]]_vars

C12_LockedUntilRetry ==
    [][\A p \in Peers :
          (accessDenied[p] /\ ~accessDenied'[p]) => retries' = retries + 1]_vars

\* C15: the step in which a peer without a room password that holds at least
\* one element consumes a SYNC_REQ from X, whatever its password, puts exactly
\* one message in flight: a SYNC_RESP to X with the peer's whole element map.
C15_OpenGateWithData ==
    [][\A p \in Peers : \A r \in Inbox(p) :
          (/\ Consumed(r)
           /\ r.type = "SYNC_REQ"
           /\ hostPassword[p] = NoPass
           /\ DOMAIN elements[p] # {})
             => net' = Taken(r) (+) SetToBag({SyncResp(p, r.from, elements[p])})
      ]_vars

\* Guest C, who is not the host, has answered the request of B, which carried
\* a password: the answer is in flight and is not a push on join.
C15_Witness ==
    /\ joinPass["B"] = Secret
    /\ ~isHost["C"]
    /\ "B" \notin conn["C"]
    /\ \E m \in Inbox("B") :
          /\ m.type = "SYNC_RESP" /\ m.from = "C"
          /\ DOMAIN m.payload.elements # {}

\* C16: the step in which a peer without a room password consumes a SYNC_REQ
\* from X puts a SYNC_RESP to X with the peer's whole element map in flight,
\* also when the map is empty and the peer is not the host.
C16_OpenGateAlways ==
    [][\A p \in Peers : \A r \in Inbox(p) :
          (/\ Consumed(r)
           /\ r.type = "SYNC_REQ"
           /\ hostPassword[p] = NoPass)
             => Sent(SyncResp(p, r.from, elements[p]))
      ]_vars

\* C18: the step in which p consumes UPDATE_ELEMENT(id, updates) leaves id in
\* p's element map with every field of updates at the received value.
C18_UpdateApplied ==
    [][\A p \in Peers : \A m \in Inbox(p) :
          (Consumed(m) /\ m.type = "UPDATE_ELEMENT")
             => /\ m.payload.id \in DOMAIN elements'[p]
                /\ \A f \in DOMAIN m.payload.updates :
                      elements'[p][m.payload.id][f] = m.payload.updates[f]
      ]_vars

\* C13: guest B, in the room without a stored join password, is eventually
\* locked by an ACCESS_DENIED; after retryJoin with the room password it is
\* eventually unlocked and holds the creator's elements.
C13_Handshake ==
    /\ joined["B"] ~> accessDenied["B"]
    /\ (RoomPassword \in sentPass["B"])
          ~> (/\ ~accessDenied["B"]
              /\ "e1" \in DOMAIN elements["B"]
              /\ elements["B"]["e1"] = elements["A"]["e1"])

\* C14: in the room without a password B eventually holds e1, equal in
\* every field to A's e1, and keeps it.
C14_Bootstrap ==
    <>[](/\ "e1" \in DOMAIN elements["B"]
         /\ elements["B"]["e1"] = elements["A"]["e1"])

\* B, which joined with an empty map, holds A's e1, taken out of a snapshot
\* of A, which is not the host.
C14_Witness ==
    /\ joined["A"] /\ joined["B"]
    /\ ~isHost["A"]
    /\ "e1" \in DOMAIN elements["B"]
    /\ elements["B"]["e1"] = elements["A"]["e1"]
    /\ "e1" \in viaSync["B"]

\* C19: an element a peer made is eventually in the map of every peer.
C19_NoLostInsert ==
    \A p \in Pair : \A id \in ElemIds :
        (id \in DOMAIN elements[p] /\ elements[p][id].createdBy = UserId(p))
            ~> (\A q \in Pair : id \in DOMAIN elements[q])

\* The element B added is in the maps of both peers.
C19_Witness ==
    /\ "e2" \in DOMAIN elements["A"]
    /\ "e2" \in DOMAIN elements["B"]
    /\ elements["A"]["e2"].createdBy = UserId("B")

\* C20: a delivery of ADD_ELEMENT(e) leaves e under e.id and every other id
\* as it was, and a second delivery of the same message right after it
\* leaves the map of the first.
C20_InsertIdempotent ==
    \A k \in Deliveries :
        /\ After(k) = Spread(Before(k), Single(bench.applied[k].id, bench.applied[k]))
        /\ (k + 1 \in Deliveries /\ bench.applied[k + 1] = bench.applied[k])
              => After(k + 1) = After(k)

\* The same ADD_ELEMENT was delivered twice to a replica that held another
\* element under that id.
C20_Witness ==
    /\ Len(bench.applied) = 2
    /\ bench.applied[1] = bench.applied[2]
    /\ bench.applied[1].id \in DOMAIN Before(1)
    /\ Before(1)[bench.applied[1].id] # bench.applied[1]
    /\ After(2)[bench.applied[1].id] = bench.applied[1]

\* C21: a step in which p consumes a CURSOR_MOVE, or in which onPeerLeave
\* fires at p, leaves p's element map, isHost flag and locked flag as they
\* were.
C21_EphemeralFrame ==
    [][\A p \in Peers :
          (\/ \E m \in Inbox(p) : Consumed(m) /\ m.type = "CURSOR_MOVE"
           \/ \E q \in conn[p] : joined[p] /\ joined'[p] /\ q \notin conn'[p])
             => /\ elements'[p] = elements[p]
                /\ isHost'[p] = isHost[p]
                /\ accessDenied'[p] = accessDenied[p]]_vars

\* A, which holds an element, has taken a cursor of B and has handled B's
\* departure.
C21_Witness ==
    /\ joined["A"] /\ ~joined["B"]
    /\ "B" \notin conn["A"]
    /\ UserId("A") \in DOMAIN cursors["B"]
    /\ UserId("B") \in DOMAIN cursors["A"]
    /\ DOMAIN elements["A"] # {}

\* C22: no step puts a SYNC_RESP in flight whose sender has an empty element
\* map and is not the host.
C22_EmptyGuestSilent ==
    [][\A m \in BagToSet(net') :
          (Sent(m) /\ m.type = "SYNC_RESP")
             => (DOMAIN elements[m.from] # {} \/ isHost[m.from])]_vars

\* The onPeerJoin of C, empty and not the host, has just run for B: its
\* cursor is on its way and no snapshot of C is.
C22_Witness ==
    /\ conn["C"] = {"B"}
    /\ DOMAIN elements["C"] = {} /\ ~isHost["C"]
    /\ \E m \in Inbox("B") : m.type = "CURSOR_MOVE" /\ m.from = "C"
    /\ \A m \in Inbox("B") : ~(m.type = "SYNC_RESP" /\ m.from = "C")

\* C23: the step in which onPeerJoin(q) fires at a peer p that holds an
\* element, or is the host, puts in flight the cursor of p and exactly one
\* SYNC_RESP to q carrying p's element map of that moment.
C23_ProactivePush ==
    [][\A p \in Peers : \A q \in Peers :
          (/\ q \in conn'[p] /\ q \notin conn[p]
           /\ (DOMAIN elements[p] # {} \/ isHost[p]))
             => net' = net (+) SetToBag({SyncResp(p, q, elements[p])})
                           (+) sendAction(p, "CURSOR_MOVE", InitialCursor(p), {q})
      ]_vars

\* B pushed to A, on A's joining, a snapshot with the element B made after
\* its own session had started.
C23_Witness ==
    /\ "A" \in conn["B"]
    /\ \E m \in Inbox("A") :
          /\ m.type = "SYNC_RESP" /\ m.from = "B"
          /\ \E id \in DOMAIN m.payload.elements :
                m.payload.elements[id].createdBy = UserId("B")
    /\ \E m \in Inbox("A") : m.type = "CURSOR_MOVE" /\ m.from = "B"

\* C26: after the step in which a peer with room password P consumes a
\* SYNC_REQ carrying P, the peer is the host and its host marker is set.
C26_CreatorReaffirmed ==
    [][\A p \in Peers : \A r \in Inbox(p) :
          (/\ Consumed(r)
           /\ r.type = "SYNC_REQ"
           /\ hostPassword[p] # NoPass
           /\ r.payload.password = hostPassword[p])
             => (isHost'[p] /\ hostMarker'[p])]_vars

\* The creator, whose host marker was not set at the start, has it set, and
\* every request of the guest, one of which carried the password, is taken.
C26_Witness ==
    /\ hostMarker["A"] /\ isHost["A"]
    /\ RoomPassword \in sentPass["B"]
    /\ \A m \in Inbox("A") : m.type # "SYNC_REQ"

\* C28: the step in which p consumes a SYNC_RESP leaves every id of the
\* snapshot in p's map, also an id p does not hold (no tombstone).
C28_NoTombstone ==
    [][\A p \in Peers : \A m \in Inbox(p) :
          (Consumed(m) /\ m.type = "SYNC_RESP")
             => \A id \in DOMAIN m.payload.elements :
                   /\ id \in DOMAIN elements'[p]
                   /\ elements'[p][id] = m.payload.elements[id]]_vars

\* The resurrection: A's DELETE_ELEMENT for e1, which only A's own
\* handleDeleteElement sends, is still in flight, and A holds e1 again, out
\* of a snapshot.
C28_Witness ==
    /\ \E m \in BagToSet(net) :
          m.type = "DELETE_ELEMENT" /\ m.from = "A" /\ m.payload.id = "e1"
    /\ "e1" \in DOMAIN elements["A"]
    /\ "e1" \in viaSync["A"]

\* C24: a step puts a SYNC_REQ in flight only as the start of the sender's
\* session, with the stored join password, or as a retryJoin call of the
\* sender, with the password supplied; one copy for every peer reached.
C24_RequestOncePerJoinOrRetry ==
    [][\A m \in BagToSet(net') :
          (Sent(m) /\ m.type = "SYNC_REQ")
             => /\ CopiesIn(m, net') = CopiesIn(m, net) + 1
                /\ \/ /\ \E T \in SUBSET Peers : StartSession(m.from, T)
                      /\ m.payload.password = joinPass[m.from]
                   \/ \E pw \in {Secret, Wrong} :
                         retryJoin(m.from, pw) /\ m.payload.password = pw
      ]_vars

\* B joined with a wrong stored password and has retried with the right
\* one: that request is in flight.
C24_Witness ==
    /\ joinPass["B"] = Wrong
    /\ retries = 1
    /\ \E m \in Inbox("A") :
          m.type = "SYNC_REQ" /\ m.from = "B" /\ m.payload.password = Secret

\* C25: onPeerLeave(q) leaves no occurrence of q in the peer list, the other
\* peers of the list and the element map as they were, and the whole store
\* as it was when q is in neither the peer list nor the cursor map.
C25_LeaveIsSafe ==
    \A k \in Deliveries :
        LET q == bench.applied[k] IN
        /\ q \notin DOMAIN After(k).peers
        /\ \A r \in (DOMAIN Before(k).peers) \ {q} :
              /\ r \in DOMAIN After(k).peers
              /\ After(k).peers[r] = Before(k).peers[r]
        /\ After(k).elements = Before(k).elements
        /\ (q \notin DOMAIN Before(k).peers /\ q \notin DOMAIN Before(k).cursors)
              => After(k) = Before(k)

\* B, twice in the peer list, left; then onPeerLeave fired for C, which was
\* in no list, next to B's cursor and the board.
C25_Witness ==
    /\ bench.applied = <<"B", "C">>
    /\ DOMAIN Before(1).peers = {"B"} /\ Before(1).peers["B"] = MaxDup
    /\ DOMAIN Before(1).cursors = {UserId("B")}
    /\ DOMAIN Before(1).elements # {}
    /\ After(2) = After(1)

C29_ColdStartKeepsLive ==
    [][\A p \in Peers :
          (disk[p].load = "pending" /\ disk'[p].load = "done")
             => /\ \A id \in DOMAIN elements[p] :
                      elements'[p][id] = elements[p][id]
                /\ DOMAIN elements[p] # {} => elements'[p] = elements[p]]_vars

\* C30: when the cache read is over and the save effect has run for the
\* current element map, the cached snapshot equals that map.
C30_CacheTracksBoard ==
    \A p \in Pair :
        (disk[p].load = "done" /\ disk[p].examined = elements[p])
            => disk[p].cache = elements[p]

\* C31: after a snapshot S is merged into the map M, the ids held are those
\* of M together with those of S; no id of M is lost, also when S is empty.
C31_MergeNeverRemoves ==
    \A k \in Deliveries :
        DOMAIN After(k) = (DOMAIN Before(k)) \cup (DOMAIN bench.applied[k])

\* An empty snapshot came to a replica holding both elements, then one
\* holding e1 only: both elements are still held.
C31_Witness ==
    /\ Len(bench.applied) = 2
    /\ bench.applied[1] = EmptyObj
    /\ DOMAIN bench.applied[2] = {"e1"}
    /\ DOMAIN Before(1) = ElemIds
    /\ DOMAIN After(2) = ElemIds

\* C32: a peer with neither a room password nor the host marker is never
\* the host, and no step writes its host marker.
C32_NoAcquiredCreator ==
    /\ [](\A p \in Peers :
            (hostPassword[p] = NoPass /\ ~hostMarker[p]) => ~isHost[p])
    /\ [][\A p \in Peers :
            (hostPassword[p] = NoPass /\ ~hostMarker[p]) => ~hostMarker'[p]]_vars

\* Guest B took the creator's board out of a snapshot and has answered C's
\* request with it, C's onPeerJoin not having fired at B; B is no host.
C32_Witness ==
    /\ "e1" \in viaSync["B"]
    /\ "C" \notin conn["B"]
    /\ \E m \in Inbox("C") : m.type = "SYNC_RESP" /\ m.from = "B"
    /\ ~isHost["B"] /\ ~hostMarker["B"]

\* C33: a peer in the room that holds a room password is the host, so that
\* onPeerJoin never finds a protected, non-empty board at a non-host.
C33_PasswordHolderIsHost ==
    \A p \in Peers : (joined[p] /\ hostPassword[p] # NoPass) => isHost[p]

\* The creator, whose host marker is not set, has taken a snapshot of the
\* guest and has pushed its protected board to the guest as the host.
C33_Witness ==
    /\ hostPassword["A"] # NoPass /\ ~hostMarker["A"] /\ isHost["A"]
    /\ viaSync["A"] # {}
    /\ "B" \in conn["A"]
    /\ \E m \in Inbox("B") :
          /\ m.type = "SYNC_RESP" /\ m.from = "A"
          /\ DOMAIN m.payload.elements # {}

\* C34: a step puts at most one SYNC_RESP or ACCESS_DENIED in flight, in one
\* copy, addressed to the sender of the SYNC_REQ the step consumes or to the
\* peer whose onPeerJoin the step is.
C34_TargetedAnswers ==
    [][\A m \in BagToSet(net') :
          (Sent(m) /\ m.type \in {"SYNC_RESP", "ACCESS_DENIED"})
             => /\ CopiesIn(m, net') = CopiesIn(m, net) + 1
                /\ \A n \in BagToSet(net') :
                      (Sent(n) /\ n.type \in {"SYNC_RESP", "ACCESS_DENIED"})
                         => n = m
                /\ \/ \E r \in Inbox(m.from) :
                         Consumed(r) /\ r.type = "SYNC_REQ" /\ r.from = m.to
                   \/ /\ m.type = "SYNC_RESP"
                      /\ m.to \notin conn[m.from]
                      /\ conn'[m.from] = conn[m.from] \cup {m.to}
      ]_vars

\* B, connected to A and to C, has a snapshot in flight to C; A never got
\* one.
C34_Witness ==
    /\ conn["B"] = {"A", "C"}
    /\ \E m \in Inbox("C") : m.type = "SYNC_RESP" /\ m.from = "B"
    /\ viaSync["A"] = {}
    /\ \A m \in Inbox("A") : m.type \notin {"SYNC_RESP", "ACCESS_DENIED"}

\* C35: the step in which p consumes a SYNC_RESP changes nothing but p's
\* element map and p's locked flag: every isHost, host marker, peer list and
\* cursor map, and the element maps and locked flags of the others, stay.
C35_SnapshotFrame ==
    [][\A p \in Peers : \A m \in Inbox(p) :
          (Consumed(m) /\ m.type = "SYNC_RESP")
             => /\ isHost' = isHost
                /\ hostMarker' = hostMarker
                /\ peers' = peers
                /\ cursors' = cursors
                /\ \A q \in Peers \ {p} :
                      /\ elements'[q] = elements[q]
                      /\ accessDenied'[q] = accessDenied[q]]_vars

\* The creator, host with the guest in its peer list and the guest's cursor
\* in its cursor map, holds an element of the guest out of a snapshot.
C35_Witness ==
    /\ isHost["A"]
    /\ "B" \in DOMAIN peers["A"]
    /\ UserId("B") \in DOMAIN cursors["A"]
    /\ \E id \in viaSync["A"] :
          id \in DOMAIN elements["A"]
             /\ elements["A"][id].createdBy = UserId("B")

\* C36: after any events in which a connected peer is not announced again
\* before it leaves, the peer list holds every connected peer once and no
\* other peer.
C36_PeerListIsConnected ==
    \A k \in 0 .. Len(bench.applied) :
        bench.trail[k + 1].peers = SetToBag(Connected(k))

\* B and C joined, B left and came back: each is in the list once.
C36_Witness ==
    /\ bench.applied = <<[kind |-> "join", peerId |-> "B"],
                         [kind |-> "join", peerId |-> "C"],
                         [kind |-> "leave", peerId |-> "B"],
                         [kind |-> "join", peerId |-> "B"]>>
    /\ bench.trail[4].peers = SetToBag({"C"})
    /\ bench.trail[5].peers = SetToBag({"B", "C"})

\* C37: a peer whose Board shows room r2 holds no element of room r, no
\* cursor of a peer of r and no peer of r in its peer list.
C37_RoomIsolation ==
    \A p \in Peers :
        (joined[p] /\ roomId[p] = "r2")
            => /\ "e1" \notin DOMAIN elements[p]
               /\ \A q \in Peers :
                     roomId[q] = "r"
                        => /\ q \notin DOMAIN peers[p]
                           /\ UserId(q) \notin DOMAIN cursors[p]

C39_DeleteIdempotentLocal ==
    \A k \in Deliveries :
        LET id == bench.applied[k] IN
        /\ id \notin DOMAIN After(k)
        /\ DOMAIN After(k) = (DOMAIN Before(k)) \ {id}
        /\ \A j \in DOMAIN After(k) : After(k)[j] = Before(k)[j]
        /\ id \notin DOMAIN Before(k) => After(k) = Before(k)

\* e1 was deleted twice from a map holding both elements: the second
\* delete changed nothing and e2 is as it was.
C39_Witness ==
    /\ bench.applied = <<"e1", "e1">>
    /\ DOMAIN Before(1) = ElemIds
    /\ DOMAIN After(1) = {"e2"}
    /\ After(2) = After(1)
    /\ After(2)["e2"] = Before(1)["e2"]

====
